---------------------------- MODULE Spec2Model ----------------------------
(***************************************************************************)
(* A state-machine model of gemma/sampler.py: the Sampler constructor, and *)
(* one call of Sampler.__call__ split at its natural seams: forbidden-token *)
(* validation + tokenisation + init_sample_state (the prefill), every      *)
(* iteration of the jax.lax.while_loop of _sample_fn (_sample_step under    *)
(* cond_fn), and the post-processing (mask_tokens_after_eos_ids, slicing).  *)
(*                                                                         *)
(* The transformer and the vocabulary are external.  A forward pass is a    *)
(* nondeterministic choice of one score vector per sequence; a string is    *)
(* the sequence of vocabulary pieces it is made of, and EncodeAsIds maps    *)
(* each piece to its id.  Images are absent (patched_images = None).        *)
(* Arrays are functions over 0 .. n-1, as in the source; Python lists that  *)
(* are built by the call (token lists) are sequences.                       *)
(***************************************************************************)
EXTENDS Integers, Sequences, FiniteSets, TLC

\* ------------------------------------------------------------- bounds
\* Largest batch (number of input strings of one call).
MaxBatch == 2
\* Most pieces in one input string (its tokenised length is one more: bos).
MaxPromptPieces == 2
\* Largest total_generation_steps.
MaxGen == 2
\* Most strings in forbidden_tokens.
MaxForbidden == 1
\* Most pieces in one forbidden-token string.
MaxTokenPieces == 2
\* Largest cache length (explicit argument or backend default).
MaxCacheLength == 1
\* Size of the vocabulary (transformer.config.num_embed); ids are 0 .. VocabSize-1.
VocabSize == 4

\* ------------------------------------------------- optional values
\* Python's None and a present value.
None == <<>>
Some(x) == <<x>>

\* ------------------------------------------------------- vocabulary
PadId == 0
EosId == 1
BosId == 2
Vocab == 0 .. (VocabSize - 1)

\* The pieces input strings are made of, and those forbidden-token strings are made of.
InputPieces == {"a", "<eos>"}
ForbiddenPieces == {"a", "<pad>"}

PieceId(p) ==
  CASE p = "<pad>" -> PadId
    [] p = "<eos>" -> EosId
    [] p = "<bos>" -> BosId
    [] OTHER -> 3

\* vocab.EncodeAsIds: the ids of the string's pieces, in order.
EncodeAsIds(s) == [k \in 1 .. Len(s) |-> PieceId(s[k])]

\* Sampler.tokenize: bos, then the encoded string.
tokenize(input_string) == <<BosId>> \o EncodeAsIds(input_string)

\* ------------------------------------------------------ score vectors
\* -jnp.inf, below every score the model gives a token it considers.
NegInf == -1
\* The score vectors a forward pass may return for one sequence: peaked at
\* eos, peaked at an ordinary token, and -inf everywhere (every id ties, so
\* argmax gives id 0).
Peak(t) == [v \in Vocab |-> IF v = t THEN 1 ELSE 0]
ScoreVectors ==
  {Peak(t) : t \in {EosId, PieceId("a")}} \cup {[v \in Vocab |-> NegInf]}

\* logits.at[:, :, forbidden_token_ids].set(-jnp.inf), for one sequence.
SetForbidden(scores, ids) ==
  [v \in DOMAIN scores |->
     IF \E k \in 1 .. Len(ids) : ids[k] = v THEN NegInf ELSE scores[v]]

\* `if forbidden_token_ids:` - neither None nor the empty tuple.
HasForbidden(forbidden_token_ids) ==
  forbidden_token_ids # None /\ Len(forbidden_token_ids[1]) > 0

\* The suppression step of init_sample_state and _sample_step.
ApplyForbidden(scores, forbidden_token_ids) ==
  IF HasForbidden(forbidden_token_ids)
    THEN SetForbidden(scores, forbidden_token_ids[1])
    ELSE scores

\* jnp.argmax: the first index holding the largest score (scores are ordered
\* numbers with NegInf lowest; NaN is not represented).
argmax(scores) ==
  CHOOSE v \in DOMAIN scores :
    /\ \A w \in DOMAIN scores : scores[w] <= scores[v]
    /\ \A w \in DOMAIN scores : w < v => scores[w] < scores[v]

\* ----------------------------------------------------- array access
\* Reading column p of a row: an out-of-range index is clamped (jax gather).
Width(row) == Cardinality(DOMAIN row)
ReadCol(row, p) ==
  row[IF p < 0 THEN 0 ELSE IF p >= Width(row) THEN Width(row) - 1 ELSE p]
\* Mutant of AtSet: the update lands one column early.
AtSet_one_early(row, p, v) ==
  IF (p - 1) \in DOMAIN row THEN [row EXCEPT ![p - 1] = v] ELSE row

\* row.at[p].set(v): an out-of-range update is dropped (jax scatter).
AtSet(row, p, v) == IF p \in DOMAIN row THEN [row EXCEPT ![p] = v] ELSE row

\* max(len(input_ids) for input_ids in all_input_ids)
max_input_length(ids) ==
  CHOOSE n \in {Len(ids[i]) : i \in DOMAIN ids} :
    \A i \in DOMAIN ids : Len(ids[i]) <= n

\* transformer_lib.mm_input_length(None): no images, no extra tokens.
mm_extra_len == 0


\* ------------------------------------------------------------- state
VARIABLES
  pc,                   \* where the program is: "start", "constructed",
                        \* "ctor_failed", "sampling", "raised", "returned"
  ctor_args,            \* the constructor's inputs, until __init__ has run
  cache_length,         \* Sampler.cache_length
  args,                 \* the arguments of the call in progress
  all_input_ids,        \* the tokenised prompts of the call
  decoding_step,        \* _SamplingState.decoding_step
  num_input_tokens,     \* _SamplingState.num_input_tokens     [B]
  token_buffer,         \* _SamplingState.token_buffer         [B, L]
  positions,            \* _SamplingState.positions            [B, L]
  logits_buffer,        \* _SamplingState.logits_buffer        [B, L, V] or None
  done,                 \* _SamplingState.done                 [B]
  total_sampling_steps, \* _SamplingState.total_sampling_steps
  forbidden_token_ids,  \* _SamplingState.forbidden_token_ids
  model_calls,          \* forward passes (transformer.apply) made so far
  masked_token_buffer,  \* the result of mask_tokens_after_eos_ids
  echo,                 \* the call's echo flag, read by the output slicing
  out_tokens            \* SamplerOutput.tokens

sampling_state ==
  <<decoding_step, num_input_tokens, token_buffer, positions, logits_buffer,
    done, total_sampling_steps, forbidden_token_ids>>
call_locals == <<args, all_input_ids, model_calls>>
output == <<masked_token_buffer, echo, out_tokens>>
vars == <<pc, ctor_args, cache_length, sampling_state, call_locals, output>>

\* ------------------------------------------------------- constructor
\* An optional length: None or 0 .. MaxCacheLength.
OptLengths == {None} \cup {Some(n) : n \in 0 .. MaxCacheLength}

\* Python truth of an optional int: None and 0 are false.
Truthy(x) == x # None /\ x[1] # 0

\* cache_length or transformer.config.max_cache_length
ResolveCacheLength(cache_length_arg, max_cache_length) ==
  IF Truthy(cache_length_arg) THEN cache_length_arg ELSE max_cache_length

Init ==
  /\ pc = "start"
  /\ ctor_args \in [cache_length : OptLengths, max_cache_length : OptLengths]
  /\ cache_length = None
  /\ args = None
  /\ all_input_ids = <<>>
  /\ decoding_step = 0
  /\ num_input_tokens = <<>>
  /\ token_buffer = <<>>
  /\ positions = <<>>
  /\ logits_buffer = None
  /\ done = <<>>
  /\ total_sampling_steps = 0
  /\ forbidden_token_ids = None
  /\ model_calls = 0
  /\ masked_token_buffer = <<>>
  /\ echo = FALSE
  /\ out_tokens = None

\* Sampler.__init__
Construct ==
  /\ pc = "start"
  /\ cache_length' =
       ResolveCacheLength(ctor_args.cache_length, ctor_args.max_cache_length)
  /\ pc' = IF cache_length' = None THEN "ctor_failed" ELSE "constructed"
  /\ ctor_args' = None
  /\ UNCHANGED <<sampling_state, call_locals, output>>

\* ------------------------------------------------- init_sample_state
\* Mutant of buffer_size: the extra column is forgotten.
buffer_size_no_extra(tss) == tss

\* buffer_size = total_sampling_steps + 1
buffer_size(tss) == tss + 1

\* Mutant of InitDecodingStep: the longest prompt of the batch.
InitDecodingStep_max(num_tokens) ==
  CHOOSE n \in {num_tokens[i] : i \in DOMAIN num_tokens} :
    \A i \in DOMAIN num_tokens : num_tokens[i] <= n

\* The column init_sample_state writes its first selected token to:
\* decoding_step = num_input_tokens[0].
InitDecodingStep(num_tokens) == num_tokens[0]

\* jnp.zeros over the vocabulary: one column of an empty logits buffer.
ZeroScores == [v \in Vocab |-> 0]

\* transformer_lib.build_positions_from_mask, for one row: the running count
\* of valid slots, less one from the first valid slot on.
build_positions_from_mask(mask_row_) ==
  [p \in DOMAIN mask_row_ |->
     LET count == Cardinality({q \in DOMAIN mask_row_ : q <= p /\ mask_row_[q]})
     IN IF count >= 1 THEN count - 1 ELSE count]

\* The logits buffer init_sample_state builds for one row from the prefill
\* scores of its ds scored positions: a zero column, the scores as returned
\* (before suppression), zero columns up to the buffer's width.  Every scored
\* position of a row carries the row's one score vector.
InitLogitsRow(scores, ds, width) ==
  [p \in 0 .. (width - 1) |-> IF 1 <= p /\ p <= ds THEN scores ELSE ZeroScores]

\* init_sample_state, given the score vector the prefill pass returns for
\* the scored positions of each sequence.
init_sample_state(ids, tss, include_logits, forbidden, logits) ==
  LET B == DOMAIN ids
      nit == [i \in B |-> Len(ids[i])]
      input_mask == [i \in B |->
                       [p \in 0 .. (buffer_size(tss) - 1) |->
                          IF p < nit[i] THEN ids[i][p + 1] # PadId ELSE TRUE]]
      padded == [i \in B |->
                   [p \in 0 .. (buffer_size(tss) - 1) |->
                      IF p < nit[i] THEN ids[i][p + 1] ELSE PadId]]
      ds == InitDecodingStep(nit)
      next_token_candidate ==
        [i \in B |-> argmax(ApplyForbidden(logits[i], forbidden))]
  IN [decoding_step |-> ds,
      num_input_tokens |-> nit,
      token_buffer |->
        [i \in B |-> AtSet(padded[i], ds, next_token_candidate[i])],
      positions |-> [i \in B |-> build_positions_from_mask(input_mask[i])],
      logits_buffer |->
        IF include_logits
          THEN Some([i \in B |-> InitLogitsRow(logits[i], ds, buffer_size(tss))])
          ELSE None,
      done |-> [i \in B |-> FALSE],
      total_sampling_steps |-> tss,
      forbidden_token_ids |-> forbidden]

\* ------------------------------------------------------ _sample_step
\* Mutant of StepDone: the previous flag is not or-ed in.
StepDone_overwrite(was_done, written) == written = EosId

\* Mutant of StepDone: the written token is compared with the pad id.
StepDone_pad(was_done, written) == was_done \/ written = PadId

\* done | (token just written == eos), for one sequence.
StepDone(was_done, written) == was_done \/ written = EosId

\* Mutant of StepToken: the candidate is written whatever the prompt holds.
StepToken_no_override(row, ds, num_tokens, candidate) == candidate

\* jnp.where(decoding_step < num_input_tokens - 1, token_buffer[:, step + 1],
\* candidate), for one sequence.
StepToken(row, ds, num_tokens, candidate) ==
  IF ds < num_tokens - 1 THEN ReadCol(row, ds + 1) ELSE candidate

\* One decode step from the state in the variables, given the score vector
\* the forward pass returns for each sequence.
_sample_step(logits) ==
  LET B == DOMAIN token_buffer
      suppressed ==
        [i \in B |-> ApplyForbidden(logits[i], forbidden_token_ids)]
      next_token_candidate == [i \in B |-> argmax(suppressed[i])]
      new_buffer ==
        [i \in B |->
           AtSet(token_buffer[i], decoding_step + 1,
                 StepToken(token_buffer[i], decoding_step, num_input_tokens[i],
                           next_token_candidate[i]))]
  IN [decoding_step |-> decoding_step + 1,
      num_input_tokens |-> num_input_tokens,
      token_buffer |-> new_buffer,
      positions |-> positions,
      logits_buffer |->
        IF logits_buffer # None
          THEN Some([i \in B |->
                       AtSet(logits_buffer[1][i], decoding_step + 1,
                             suppressed[i])])
          ELSE logits_buffer,
      done |-> [i \in B |->
                  StepDone(done[i], ReadCol(new_buffer[i], decoding_step + 1))],
      total_sampling_steps |-> total_sampling_steps,
      forbidden_token_ids |-> forbidden_token_ids]

\* Mutant of cond_fn: the done flags are not consulted.
cond_fn_ignore_done == decoding_step < total_sampling_steps

\* Mutant of cond_fn: the step bound is dropped.
cond_fn_unbounded == \E i \in DOMAIN done : ~done[i]

\* Mutant of cond_fn: the step bound is off by one.
cond_fn_inclusive ==
  /\ decoding_step <= total_sampling_steps
  /\ \E i \in DOMAIN done : ~done[i]

\* cond_fn of _sample_fn
cond_fn ==
  /\ decoding_step < total_sampling_steps
  /\ \E i \in DOMAIN done : ~done[i]

\* The variables take the fields of the sampling state st.
Becomes(st) ==
  /\ decoding_step' = st.decoding_step
  /\ num_input_tokens' = st.num_input_tokens
  /\ token_buffer' = st.token_buffer
  /\ positions' = st.positions
  /\ logits_buffer' = st.logits_buffer
  /\ done' = st.done
  /\ total_sampling_steps' = st.total_sampling_steps
  /\ forbidden_token_ids' = st.forbidden_token_ids

\* ---------------------------------------------------------- __call__
InputStrings ==
  UNION {[1 .. n -> InputPieces] : n \in 0 .. MaxPromptPieces}
InputBatches ==
  UNION {[0 .. (b - 1) -> InputStrings] : b \in 1 .. MaxBatch}
TokenStrings ==
  UNION {[1 .. n -> ForbiddenPieces] : n \in 0 .. MaxTokenPieces}
ForbiddenArgs ==
  {None} \cup
  {Some(f) : f \in UNION {[1 .. n -> TokenStrings] : n \in 0 .. MaxForbidden}}

\* Mutant of ForbiddenTokenOk: only an empty encoding is rejected.
ForbiddenTokenOk_nonempty(token) == Len(EncodeAsIds(token)) >= 1

\* len(token_id) != 1 never holds: every forbidden string is one id.
ForbiddenTokenOk(token) == Len(EncodeAsIds(token)) = 1
ForbiddenTokensValid(forbidden_tokens) ==
  forbidden_tokens = None
  \/ \A k \in 1 .. Len(forbidden_tokens[1]) :
       ForbiddenTokenOk(forbidden_tokens[1][k])

\* The tuple of ids built from valid forbidden tokens (None when not given).
ForbiddenIds(forbidden_tokens) ==
  IF forbidden_tokens = None THEN None
  ELSE Some([k \in 1 .. Len(forbidden_tokens[1]) |->
               EncodeAsIds(forbidden_tokens[1][k])[1]])

\* __call__ up to the loop: validate the forbidden tokens (raising before
\* anything else is built), tokenise, size the buffer, run the prefill.
Call ==
  /\ pc = "constructed"
  /\ \E input_strings \in InputBatches,
        total_generation_steps \in 0 .. MaxGen,
        return_logits \in BOOLEAN,
        forbidden_tokens \in ForbiddenArgs :
       /\ args' = Some([input_strings |-> input_strings,
                        total_generation_steps |-> total_generation_steps,
                        return_logits |-> return_logits,
                        forbidden_tokens |-> forbidden_tokens])
       /\ IF ~ForbiddenTokensValid(forbidden_tokens)
            THEN /\ pc' = "raised"
                 /\ UNCHANGED <<sampling_state, all_input_ids, model_calls>>
            ELSE \E logits \in [DOMAIN input_strings -> ScoreVectors] :
                   LET ids == [i \in DOMAIN input_strings |->
                                 tokenize(input_strings[i])]
                       tss == max_input_length(ids) + total_generation_steps
                              + mm_extra_len
                   IN /\ Becomes(init_sample_state(
                           ids, tss, return_logits,
                           ForbiddenIds(forbidden_tokens), logits))
                      /\ all_input_ids' = ids
                      /\ model_calls' = model_calls + 1
                      /\ pc' = "sampling"
  /\ UNCHANGED <<ctor_args, cache_length, output>>

\* One iteration of the while loop of _sample_fn.
Step ==
  /\ pc = "sampling"
  /\ cond_fn
  /\ \E logits \in [DOMAIN token_buffer -> ScoreVectors] :
       Becomes(_sample_step(logits))
  /\ model_calls' = model_calls + 1
  /\ UNCHANGED <<pc, ctor_args, cache_length, args, all_input_ids, output>>

\* ---------------------------------------------------- post-processing
\* Mutant of eos_index: the last eos instead of the first.
eos_index_last(row) ==
  IF \E p \in DOMAIN row : row[p] = EosId
    THEN CHOOSE p \in DOMAIN row :
           row[p] = EosId /\ \A q \in DOMAIN row : q > p => row[q] # EosId
    ELSE Width(row)

\* The column of the first eos of a row, or the row's width when it has none.
eos_index(row) ==
  IF \E p \in DOMAIN row : row[p] = EosId
    THEN CHOOSE p \in DOMAIN row :
           row[p] = EosId /\ \A q \in DOMAIN row : q < p => row[q] # EosId
    ELSE Width(row)

\* Mutant of mask_row: the eos column itself is masked (< for <=).
mask_row_strict(row) ==
  [p \in DOMAIN row |->
     LET mask == IF p < eos_index(row) THEN 1 ELSE 0
     IN row[p] * mask + PadId * (1 - mask)]

\* mask_tokens_after_eos_ids, for one row:
\* token_buffer * mask + pad_id * (1 - mask), mask = (column <= eos index).
mask_row(row) ==
  [p \in DOMAIN row |->
     LET mask == IF p <= eos_index(row) THEN 1 ELSE 0
     IN row[p] * mask + PadId * (1 - mask)]

mask_tokens_after_eos_ids(buffer) ==
  [i \in DOMAIN buffer |-> mask_row(buffer[i])]

\* start_idx = 0 if echo else num_tokens
start_idx(echo_flag, num_tokens) == IF echo_flag THEN 0 ELSE num_tokens

\* row[lo:hi].tolist() for 0 <= lo: the columns lo .. hi-1 the row has.
PySlice(row, lo, hi) ==
  LET top == IF hi > Width(row) THEN Width(row) ELSE hi
      n == IF top > lo THEN top - lo ELSE 0
  IN [k \in 1 .. n |-> row[lo + k - 1]]

\* Mutant of OutTokens: the slice runs to the end of the buffer.
OutTokens_to_end(masked, i, echo_flag) ==
  PySlice(masked[i], start_idx(echo_flag, num_input_tokens[i]),
          total_sampling_steps + 1)

\* The token list returned for sequence i from a masked buffer.
OutTokens(masked, i, echo_flag) ==
  PySlice(masked[i], start_idx(echo_flag, num_input_tokens[i]),
          total_sampling_steps)

\* The loop has ended: mask after eos, slice, return.  echo is an argument of
\* the call that nothing reads before the slicing, so it is drawn here.
Finish ==
  /\ pc = "sampling"
  /\ ~cond_fn
  /\ \E e \in BOOLEAN :
       /\ echo' = e
       /\ masked_token_buffer' = mask_tokens_after_eos_ids(token_buffer)
       /\ out_tokens' =
            Some([i \in DOMAIN token_buffer |->
                    OutTokens(masked_token_buffer', i, e)])
  /\ pc' = "returned"
  /\ UNCHANGED <<ctor_args, cache_length, sampling_state, call_locals>>

Next == Construct \/ Call \/ Step \/ Finish

Spec == Init /\ [][Next]_vars

\* ------------------------------------------------------------ claims
\* The call has built its sampling state (the loop is running or has ended).
Sampling == pc \in {"sampling", "returned"}
Batch == DOMAIN token_buffer
\* Decode steps taken so far: every forward pass but the prefill.
StepsTaken == model_calls - 1
\* The ids of forbidden_token_ids.
ForbiddenSet ==
  IF forbidden_token_ids = None THEN {}
  ELSE {forbidden_token_ids[1][k] : k \in 1 .. Len(forbidden_token_ids[1])}
\* The generated slots of sequence i written so far: at or beyond its prompt,
\* from the column init wrote to the column the last step wrote.
GeneratedSlots(i) ==
  {p \in DOMAIN token_buffer[i] :
     /\ p >= num_input_tokens[i]
     /\ p >= num_input_tokens[0]
     /\ p <= decoding_step}

\* C1: prompt immutability - in every state of a call, the first
\* num_input_tokens[i] slots of every sequence hold its encoded prompt.
C1_PromptImmutable ==
  Sampling =>
    \A i \in Batch : \A p \in 0 .. (num_input_tokens[i] - 1) :
      token_buffer[i][p] = all_input_ids[i][p + 1]

\* C2: with a non-empty forbidden_token_ids, no generated slot written by
\* init or by a step holds a forbidden id, whatever scores the model returns,
\* in the sampling state and in the returned token lists.
C2_NoForbiddenGenerated ==
  (Sampling /\ HasForbidden(forbidden_token_ids)) =>
    /\ \A i \in Batch : \A p \in GeneratedSlots(i) :
         token_buffer[i][p] \notin ForbiddenSet
    /\ pc = "returned" =>
         \A i \in Batch : \A p \in GeneratedSlots(i) :
           p < total_sampling_steps =>
             out_tokens[1][i][p - start_idx(echo, num_input_tokens[i]) + 1]
               \notin ForbiddenSet

\* C3: the loop takes at most total_sampling_steps - (initial decoding_step)
\* steps, and at that count no further step is possible, eos or not.
C3_LoopBounded ==
  Sampling =>
    /\ StepsTaken <= total_sampling_steps - Len(all_input_ids[0])
    /\ StepsTaken = total_sampling_steps - Len(all_input_ids[0])
         => ~ENABLED Step
C3_Witness ==
  /\ pc = "returned"
  /\ StepsTaken = total_sampling_steps - Len(all_input_ids[0])
  /\ StepsTaken >= 3
  /\ \A i \in Batch : ~done[i]

\* C4: 0 <= decoding_step <= total_sampling_steps in every state of a call,
\* and the buffer's width is total_sampling_steps + 1 throughout, where
\* total_sampling_steps stays the value the call computed.
C4_StepRangeAndWidth ==
  Sampling =>
    /\ 0 <= decoding_step
    /\ decoding_step <= total_sampling_steps
    /\ total_sampling_steps =
         max_input_length(all_input_ids) + args[1].total_generation_steps
    /\ \A i \in Batch : DOMAIN token_buffer[i] = 0 .. total_sampling_steps
C4_Witness ==
  /\ pc = "sampling"
  /\ decoding_step = total_sampling_steps
  /\ StepsTaken >= 2
  /\ \E i \in Batch : ~done[i]

\* C5: done never goes from true to false.
C5_DoneMonotonic ==
  [][\A i \in DOMAIN done : done[i] => (i \in DOMAIN done' /\ done'[i])]_vars
\* A sequence that was done before the last step and whose last written
\* token is not eos: the step kept it done.
C5_Witness ==
  /\ pc = "sampling"
  /\ \E i \in Batch : done[i] /\ token_buffer[i][decoding_step] # EosId

\* C6: after mask_tokens_after_eos_ids, every position strictly after the
\* first eos of a sequence holds pad.
C6_PadAfterEos ==
  pc = "returned" =>
    \A i \in Batch : \A p, q \in DOMAIN token_buffer[i] :
      (q < p /\ token_buffer[i][q] = EosId) => masked_token_buffer[i][p] = PadId
C6_Witness ==
  /\ pc = "returned"
  /\ \E i \in Batch : \E p, q \in DOMAIN token_buffer[i] :
       /\ q < p
       /\ token_buffer[i][q] = EosId
       /\ token_buffer[i][p] # PadId
       /\ masked_token_buffer[i][p] = PadId

\* C7: the echoed token list of every sequence is its encoded prompt followed
\* by the list the same final state gives without echo.
C7_EchoIsPromptPlusRest ==
  (pc = "returned" /\ echo) =>
    \A i \in Batch :
      out_tokens[1][i]
        = all_input_ids[i] \o OutTokens(masked_token_buffer, i, FALSE)

\* C8: a single-prompt call without echo returns at most
\* total_generation_steps tokens, and every entry after an eos is pad.
C8_SingleNoEcho ==
  (pc = "returned" /\ ~echo /\ Batch = {0}) =>
    LET out == out_tokens[1][0]
    IN /\ Len(out) <= args[1].total_generation_steps
       /\ \A k, m \in 1 .. Len(out) : (k < m /\ out[k] = EosId) => out[m] = PadId
\* eos came first and the loop wrote a non-pad token after it, which the
\* returned list shows as pad.
C8_Witness ==
  /\ pc = "returned" /\ ~echo /\ Batch = {0}
  /\ Len(out_tokens[1][0]) = 2
  /\ out_tokens[1][0][1] = EosId
  /\ token_buffer[0][num_input_tokens[0] + 1] # PadId
  /\ out_tokens[1][0][2] = PadId

\* C9: once a call has been made with a forbidden-token string of two or
\* more ids, the call has raised: no forward pass, no sampling state, no output.
C9_MultiIdForbiddenRaises ==
  (args # None /\ args[1].forbidden_tokens # None
   /\ \E k \in 1 .. Len(args[1].forbidden_tokens[1]) :
        Len(EncodeAsIds(args[1].forbidden_tokens[1][k])) >= 2) =>
    /\ pc = "raised"
    /\ model_calls = 0
    /\ token_buffer = <<>> /\ done = <<>> /\ all_input_ids = <<>>
    /\ out_tokens = None
C9_Witness ==
  /\ pc = "raised"
  /\ \E k \in 1 .. Len(args[1].forbidden_tokens[1]) :
       Len(EncodeAsIds(args[1].forbidden_tokens[1][k])) >= 2

\* C10: construction fails exactly when neither an explicit cache_length nor
\* a backend default is given; otherwise cache_length is the explicit value
\* if given, else the default.
C10_CtorFailsIffUnresolvable ==
  [][pc = "start" =>
       /\ pc' = "ctor_failed"
            <=> (ctor_args.cache_length = None
                 /\ ctor_args.max_cache_length = None)
       /\ pc' = "constructed" =>
            cache_length' = IF ctor_args.cache_length # None
                              THEN ctor_args.cache_length
                              ELSE ctor_args.max_cache_length]_vars

\* -------------------------------------------------- claims, continued
\* The transition is one decode step of the loop.
IsStep == pc = "sampling" /\ model_calls' # model_calls
\* The padded prompt of sequence i at column p.
PaddedPrompt(i, p) ==
  IF p < Len(all_input_ids[i]) THEN all_input_ids[i][p + 1] ELSE PadId
\* The token the scores recorded for column p of sequence i select.
Selected(i, p) ==
  argmax(ApplyForbidden(logits_buffer[1][i][p], forbidden_token_ids))

\* C12: a step writes, at column decoding_step + 1, the prompt token already
\* there for every sequence whose prompt reaches that column and the greedy
\* candidate (the argmax of the scores it records) for every other sequence;
\* so the slots strictly between the prefill boundary and num_input_tokens[i]
\* hold sequence i's prompt in every state of the call.
C12_PromptOverride ==
  [][/\ IsStep =>
          \A i \in Batch :
            LET col == decoding_step + 1
            IN IF col < num_input_tokens[i]
                 THEN token_buffer'[i][col] = token_buffer[i][col]
                 ELSE logits_buffer' # None =>
                        token_buffer'[i][col] = argmax(logits_buffer'[1][i][col])
     /\ pc' \in {"sampling", "returned"} =>
          \A i \in DOMAIN token_buffer' :
            \A p \in (Len(all_input_ids'[0]) + 1) .. (num_input_tokens'[i] - 1) :
              token_buffer'[i][p] = all_input_ids'[i][p + 1]]_vars
\* The last step wrote a prompt token that the recorded scores did not
\* select, and wrote another sequence's greedy candidate.
C12_Witness ==
  /\ pc = "sampling" /\ logits_buffer # None
  /\ decoding_step > num_input_tokens[0]
  /\ \E i \in Batch :
       /\ decoding_step < num_input_tokens[i]
       /\ token_buffer[i][decoding_step] = all_input_ids[i][decoding_step + 1]
       /\ Selected(i, decoding_step) # token_buffer[i][decoding_step]
  /\ \E j \in Batch :
       /\ decoding_step >= num_input_tokens[j]
       /\ token_buffer[j][decoding_step] = Selected(j, decoding_step)
       /\ token_buffer[j][decoding_step] # PadId

\* C13: a step is taken only while decoding_step < total_sampling_steps and
\* some sequence is not done; the loop ends with decoding_step =
\* total_sampling_steps or every sequence done; with every sequence done
\* nothing more is written and no forward pass is made.
C13_StepOnlyWhileCond ==
  [][/\ IsStep =>
          /\ decoding_step < total_sampling_steps
          /\ \E i \in DOMAIN done : ~done[i]
     /\ (pc = "sampling" /\ pc' = "returned") =>
          \/ decoding_step' = total_sampling_steps'
          \/ \A i \in DOMAIN done' : done'[i]
     /\ (pc = "sampling" /\ \A i \in DOMAIN done : done[i]) =>
          UNCHANGED <<token_buffer, logits_buffer, model_calls>>]_vars
\* The loop ended early: every sequence done, columns left unwritten.
C13_Witness ==
  /\ pc = "returned"
  /\ Cardinality(Batch) = 2
  /\ \A i \in Batch : done[i]
  /\ decoding_step < total_sampling_steps

\* C14: a step adds one to decoding_step, changes token_buffer and the
\* logits buffer (if there is one) in column decoding_step + 1 only, and
\* leaves num_input_tokens, positions, total_sampling_steps and
\* forbidden_token_ids as they were.
C14_StepFrame ==
  [][IsStep =>
       /\ decoding_step' = decoding_step + 1
       /\ DOMAIN token_buffer' = DOMAIN token_buffer
       /\ \A i \in Batch :
            /\ DOMAIN token_buffer'[i] = DOMAIN token_buffer[i]
            /\ \A p \in DOMAIN token_buffer[i] :
                 p # decoding_step + 1 => token_buffer'[i][p] = token_buffer[i][p]
       /\ (logits_buffer = None) = (logits_buffer' = None)
       /\ logits_buffer # None =>
            \A i \in Batch :
              /\ DOMAIN logits_buffer'[1][i] = DOMAIN logits_buffer[1][i]
              /\ \A p \in DOMAIN logits_buffer[1][i] :
                   p # decoding_step + 1 =>
                     logits_buffer'[1][i][p] = logits_buffer[1][i][p]
       /\ UNCHANGED <<num_input_tokens, positions, total_sampling_steps,
                      forbidden_token_ids>>]_vars
\* A step has written a token and scores into its column.
C14_Witness ==
  /\ pc = "sampling" /\ StepsTaken >= 1 /\ logits_buffer # None
  /\ \E i \in Batch :
       /\ token_buffer[i][decoding_step] # PadId
       /\ logits_buffer[1][i][decoding_step] # ZeroScores
       /\ token_buffer[i][decoding_step - 1] # token_buffer[i][decoding_step]

\* C15: after a step, done[i] is (done[i] before) or (the token written at
\* decoding_step + 1, after any override, is eos); init returns done all false.
C15_DoneUpdate ==
  [][/\ IsStep =>
          \A i \in Batch :
            done'[i] = (done[i] \/ token_buffer'[i][decoding_step + 1] = EosId)
     /\ (pc = "constructed" /\ pc' = "sampling") =>
          \A i \in DOMAIN done' : ~done'[i]]_vars
\* A step set done from an eos that the override took from the prompt.
C15_Witness ==
  /\ pc = "sampling" /\ StepsTaken >= 1
  /\ \E i \in Batch :
       /\ decoding_step < num_input_tokens[i]
       /\ token_buffer[i][decoding_step] = EosId
       /\ done[i]
       /\ token_buffer[i][decoding_step - 1] # EosId

\* C16: init returns decoding_step = num_input_tokens[0] (the first prompt's
\* length, not the longest), has written one selected token per sequence, all
\* at column decoding_step, and every other column holds the padded prompt.
C16_InitState ==
  (pc = "sampling" /\ model_calls = 1) =>
    /\ decoding_step = Len(all_input_ids[0])
    /\ \A i \in Batch :
         /\ num_input_tokens[i] = Len(all_input_ids[i])
         /\ \A p \in DOMAIN token_buffer[i] :
              p # decoding_step => token_buffer[i][p] = PaddedPrompt(i, p)
         /\ logits_buffer # None =>
              token_buffer[i][decoding_step] = Selected(i, decoding_step)
\* The first prompt is the shorter one, and init's token differs from what
\* the padded prompt holds in its column.
C16_Witness ==
  /\ pc = "sampling" /\ model_calls = 1 /\ logits_buffer # None
  /\ decoding_step < max_input_length(all_input_ids)
  /\ \A i \in Batch :
       token_buffer[i][decoding_step] # PaddedPrompt(i, decoding_step)

\* C17: mask_tokens_after_eos_ids returns a sequence without eos unchanged,
\* and leaves every position up to and including the first eos unchanged.
C17_MaskFrame ==
  pc = "returned" =>
    \A i \in Batch :
      /\ (\A p \in DOMAIN token_buffer[i] : token_buffer[i][p] # EosId)
           => masked_token_buffer[i] = token_buffer[i]
      /\ DOMAIN masked_token_buffer[i] = DOMAIN token_buffer[i]
      /\ \A p \in DOMAIN token_buffer[i] :
           (\A q \in DOMAIN token_buffer[i] : q < p => token_buffer[i][q] # EosId)
             => masked_token_buffer[i][p] = token_buffer[i][p]
\* One sequence without eos that holds generated non-pad tokens, one whose
\* eos is kept while a later token is masked.
C17_Witness ==
  /\ pc = "returned"
  /\ \E i \in Batch :
       /\ \A p \in DOMAIN token_buffer[i] : token_buffer[i][p] # EosId
       /\ token_buffer[i][total_sampling_steps] # PadId
  /\ \E j \in Batch : \E p \in DOMAIN token_buffer[j] :
       /\ masked_token_buffer[j][p] = EosId
       /\ masked_token_buffer[j] # token_buffer[j]

\* C18: whenever a generated slot of sequence i (a slot in
\* num_input_tokens[i] .. decoding_step, init's token included) holds eos,
\* done[i] is true; a single-prompt run whose first generated token is eos
\* takes no decode step.
C18_EosImpliesDone ==
  Sampling =>
    /\ \A i \in Batch :
         \A p \in num_input_tokens[i] .. decoding_step :
           token_buffer[i][p] = EosId => done[i]
    /\ (Batch = {0} /\ token_buffer[0][num_input_tokens[0]] = EosId)
         => StepsTaken = 0

\* C19: the column init writes (decoding_step) and the column every step
\* the loop allows writes (decoding_step + 1) lie in 0 .. total_sampling_steps,
\* inside the buffer.
C19_WritesInBounds ==
  Sampling =>
    \A i \in Batch :
      /\ DOMAIN token_buffer[i] = 0 .. total_sampling_steps
      /\ decoding_step \in DOMAIN token_buffer[i]
      /\ (pc = "sampling" /\ cond_fn) =>
           (decoding_step + 1) \in DOMAIN token_buffer[i]
\* A batch of unequal prompts about to write the buffer's last column.
C19_Witness ==
  /\ pc = "sampling" /\ cond_fn
  /\ decoding_step + 1 = total_sampling_steps
  /\ \E i, j \in Batch : num_input_tokens[i] < num_input_tokens[j]
  /\ StepsTaken >= 2

\* C20: after a full run that produced no eos, every slot from
\* num_input_tokens[i] to total_sampling_steps of every sequence was written
\* by init or by a step, with the token its recorded scores select.
C20_Contiguous ==
  (/\ pc = "returned"
   /\ \A i \in Batch : \A p \in DOMAIN token_buffer[i] :
        p >= num_input_tokens[i] => token_buffer[i][p] # EosId) =>
    \A i \in Batch : \A p \in num_input_tokens[i] .. total_sampling_steps :
      /\ num_input_tokens[0] <= p /\ p <= decoding_step
      /\ logits_buffer # None => token_buffer[i][p] = Selected(i, p)

=============================================================================
